---------------------------- MODULE Spec2Model ----------------------------
(***************************************************************************)
(* A model of mongo-cache-stats: the console monitor                       *)
(* (mongo_cache_stats.py) and the dashboard                                *)
(* (mongo_cache_stats_streamlit.py).                                       *)
(*                                                                         *)
(* The MongoDB server is the environment: its catalogue (databases,        *)
(* collections, views, indexes) and the collstats documents it answers     *)
(* with are drawn from small sets.  Names are sequences of characters so   *)
(* that str.startswith and string concatenation are computed, not assumed. *)
(* Python floats are modelled as exact rationals [n, d]; text formatting   *)
(* of a figure (the "%.1f" of the console table) is not modelled, a row    *)
(* carries the figure that is formatted.                                   *)
(***************************************************************************)
EXTENDS Integers, Sequences, FiniteSets, TLC

VARIABLES
    variant,          \* "cli" | "dash": which of the two scripts runs
    pc,               \* position of the script
    attempts,         \* connection attempts made by the current run, in order
    error,            \* failure causes printed (cli) or surfaced by st.error (dash)
    exitStatus,       \* {} while running, {1} after sys.exit(1)
    catalog,          \* server: indexes into Universe of the namespaces that exist
    indexes,          \* server: index names of each namespace, in listing order
    created,          \* server: namespaces created after the script's start-up
    collectionInfos,  \* cli: the tracking list built by the inventory
    table_data,       \* cli: the rows of the table printed by the latest pass
    lastStats,        \* history: the collstats answers read by the latest pass,
                      \*          and the server's catalog and indexes at that pass
    repeated,         \* history: the latest pass read the same answers as the one before
    prevInfos,        \* history: collectionInfos as the latest pass found it
    skips,            \* history: per record, the passes in a row (up to MaxSkips)
                      \*          that left it out for a data size of 0
    spanned,          \* history: per record, the value of skips that the latest
                      \*          pass found, if that pass printed its row (else 0)
    collection_data,  \* dash: the pie input of the current run
    detailed_stats,   \* dash: the table rows of the current run
    pie,              \* dash: labels/values handed to go.Pie by the current run
    total_cache_size, \* dash: "maximum bytes configured" read by the current run (0: none)
    denominator_choice \* dash: the radio's value in the current run ("": none)

serverVars == <<catalog, indexes, created>>

cliVars ==
    <<collectionInfos, table_data, lastStats, repeated, prevInfos, skips, spanned>>

dashVars ==
    <<collection_data, detailed_stats, pie, total_cache_size, denominator_choice>>

vars == <<variant, pc, attempts, error, exitStatus, serverVars, cliVars, dashVars>>

-----------------------------------------------------------------------------
(* Names.                                                                  *)

SystemPrefix == <<"s", "y", "s", "t", "e", "m", ".">>

NameD      == <<"d">>
NameSystem == <<"s", "y", "s", "t", "e", "m">>
NameC      == <<"c">>
NameN      == <<"n">>
NameV      == <<"v">>
NameSysP   == SystemPrefix \o <<"p">>
IdIndex    == <<"_", "i", "d", "_">>
XIndex     == <<"x">>
YIndex     == <<"y">>

\* str.startswith
StartsWith(s, p) ==
    /\ Len(s) >= Len(p)
    /\ SubSeq(s, 1, Len(p)) = p

\* db + "." + coll, and f"{ns}.{indexName}"
Namespace(db, coll) == db \o <<".">> \o coll

-----------------------------------------------------------------------------
(* Exact rationals for Python's float arithmetic.                          *)

Abs(i) == IF i < 0 THEN -i ELSE i

RECURSIVE GCD(_, _)
GCD(a, b) == IF b = 0 THEN a ELSE GCD(b, a % b)

Rat(n, d) ==
    LET g == GCD(Abs(n), Abs(d))
        s == IF d < 0 THEN -1 ELSE 1
    IN  [n |-> (s * n) \div g, d |-> (s * d) \div g]

FromInt(i) == [n |-> i, d |-> 1]

RatDiv(a, b) == Rat(a.n * b.d, a.d * b.n)

RatMul(a, b) == Rat(a.n * b.n, a.d * b.d)

RatLeq(a, b) == a.n * b.d <= b.n * a.d

\* min(a, b) of Python: b unless a < b
RatMin(a, b) == IF RatLeq(b, a) THEN b ELSE a

\* int(x) of a float: truncation toward zero
PyInt(r) == IF r.n >= 0 THEN r.n \div r.d ELSE -((-r.n) \div r.d)

-----------------------------------------------------------------------------
(* Program constants.                                                      *)

COLLECTION_CACHE_OVERHEAD == Rat(125, 100)

INDEX_CACHE_OVERHEAD == Rat(80, 100)

reportTime == 60

-----------------------------------------------------------------------------
(* Optional values and small sequence helpers.                             *)

\* An optional value: {} (absent key / None) or {v}; dict.get(key, default)
Get(opt, default) == IF opt = {} THEN default ELSE CHOOSE x \in opt : TRUE

Range(s) == {s[i] : i \in DOMAIN s}

RECURSIVE SumSeq(_)
SumSeq(s) == IF s = <<>> THEN 0 ELSE Head(s) + SumSeq(Tail(s))

-----------------------------------------------------------------------------
(* Connection bootstrap: get_mongodb_connection of both scripts.           *)

PlainCauses == {"refused"}

TlsCauses == {"handshake", "timeout"}

Attempt(mode, cause) == [mode |-> mode, cause |-> cause]

NoPie == [labels |-> <<>>, values |-> <<>>]

\* cli, first try: MongoClient(conn_string) and ping, without SSL
CliConnectPlain ==
    /\ variant = "cli"
    /\ pc = "start"
    /\ \/ /\ attempts' = Append(attempts, Attempt("plain", {}))
          /\ pc' = "connected"
          /\ error' = error
       \/ \E e \in PlainCauses :
             /\ attempts' = Append(attempts, Attempt("plain", {e}))
             /\ pc' = "retry"
             /\ error' = Append(error, e)
    /\ UNCHANGED <<variant, exitStatus, serverVars, cliVars, dashVars>>

\* The second try without the sys.exit(1) after its failure
CliConnectTLSNoExit ==
    /\ variant = "cli"
    /\ pc = "retry"
    /\ \/ /\ attempts' = Append(attempts, Attempt("tls", {}))
          /\ error' = error
       \/ \E s \in TlsCauses :
             /\ attempts' = Append(attempts, Attempt("tls", {s}))
             /\ error' = Append(error, s)
    /\ pc' = "connected"
    /\ UNCHANGED <<variant, exitStatus, serverVars, cliVars, dashVars>>

\* cli, inside the handler of the first failure: the same with tlsCAFile;
\* on a second failure both causes are printed and sys.exit(1)
CliConnectTLS ==
    /\ variant = "cli"
    /\ pc = "retry"
    /\ \/ /\ attempts' = Append(attempts, Attempt("tls", {}))
          /\ pc' = "connected"
          /\ error' = error
          /\ exitStatus' = exitStatus
       \/ \E s \in TlsCauses :
             /\ attempts' = Append(attempts, Attempt("tls", {s}))
             /\ pc' = "exited"
             /\ error' = Append(error, s)
             /\ exitStatus' = {1}
    /\ UNCHANGED <<variant, serverVars, cliVars, dashVars>>

\* dash, first try; the cause of a failure is kept in e
DashConnectPlain ==
    /\ variant = "dash"
    /\ pc = "start"
    /\ \/ /\ attempts' = Append(attempts, Attempt("plain", {}))
          /\ pc' = "connected"
       \/ \E e \in PlainCauses :
             /\ attempts' = Append(attempts, Attempt("plain", {e}))
             /\ pc' = "retry"
    /\ UNCHANGED <<variant, error, exitStatus, serverVars, cliVars, dashVars>>

\* dash, second try; on a second failure the raised Exception names both
\* causes, the caller shows it with st.error and st.stop() ends the run
DashConnectTLS ==
    /\ variant = "dash"
    /\ pc = "retry"
    /\ \/ /\ attempts' = Append(attempts, Attempt("tls", {}))
          /\ pc' = "connected"
          /\ error' = error
       \/ \E s \in TlsCauses :
             /\ attempts' = Append(attempts, Attempt("tls", {s}))
             /\ pc' = "stopped"
             /\ error' = <<Get(attempts[Len(attempts)].cause, "none"), s>>
    /\ UNCHANGED <<variant, exitStatus, serverVars, cliVars, dashVars>>

-----------------------------------------------------------------------------
(* The server.  Universe lists, in listing order (databases, then their    *)
(* collections), every namespace that can exist; catalog holds the ones    *)
(* that do.  A name's type never changes.                                  *)

Entry(db, name, type) == [db |-> db, name |-> name, type |-> type]

Universe ==
    << Entry(NameD, NameC, "collection"),
       Entry(NameD, NameN, "collection"),
       Entry(NameD, NameSysP, "collection"),
       Entry(NameD, NameV, "view"),
       Entry(NameSystem, NameC, "collection") >>

\* The namespaces whose statistics range over the wide sets below
RichEntries == {1}

StartCatalogs == { {1, 2, 3, 4}, {4, 5} }

\* What may be created after start-up: a collection, and indexes on one
\* collection up to MaxIndexes
Creatable == {2}

IndexTargets == {5}

ExtraIndexes == <<XIndex, YIndex>>

MaxIndexes == 2

UIndex(db, coll) ==
    CHOOSE i \in DOMAIN Universe : Universe[i].db = db /\ Universe[i].name = coll

Sample(a, b, c, d) ==
    [inCache |-> a, cacheRead |-> b, cacheWrite |-> c, pagesUsed |-> d]

\* The (cache sub-document, indexSizes entry) pairs of the first index
IndexAnswers ==
    { <<Sample(80, 30, 10, 3), {100}>>, <<Sample(40, 29, 70, 63), {100}>>,
      <<Sample(80, 30, 10, 3), {0}>>, <<Sample(40, 29, 70, 63), {}>> }

ThinSample == Sample(500, 60, 60, 60)

ThinIndexSample == Sample(40, 6, 6, 6)

\* The top-level size fields of a collstats document
SizeDoc(size, storage, count, avg) ==
    [size |-> size, storageSize |-> storage, count |-> count, avgObjSize |-> avg]

FullSizeDoc == SizeDoc({100}, {50}, {4}, {25})

ZeroSizeDoc == SizeDoc({0}, {0}, {0}, {})

NoSizeDoc == SizeDoc({}, {}, {}, {})

\* The (wiredTiger.cache sub-document, size fields) pairs of the rich collection
CollAnswers ==
    { <<Sample(1000, 120, 61, 7), FullSizeDoc>>,
      <<Sample(4600, 119, 180, 66), FullSizeDoc>>,
      <<Sample(125, 300, 200, 70), FullSizeDoc>>,
      <<Sample(40, 300, 200, 70), FullSizeDoc>>,
      <<Sample(1000, 120, 61, 7), ZeroSizeDoc>>,
      <<Sample(4600, 119, 180, 66), ZeroSizeDoc>>,
      <<Sample(4600, 119, 180, 66), NoSizeDoc>> }

ThinSizeDoc == SizeDoc({100}, {100}, {4}, {25})

\* A collstats answer.  kind: "ok" (a full document), "viewerr" (a document
\* holding only the errmsg "Collection stats not supported on views"),
\* "nocache" (a document without the wiredTiger sub-document), "raise" (the
\* command raises)
Answer(kind, cache, sizes, details, isizes) ==
    [kind |-> kind, cache |-> cache, sizes |-> sizes,
     indexDetails |-> details, indexSizes |-> isizes]

NoDoc(kind) ==
    Answer(kind, Sample(0, 0, 0, 0), NoSizeDoc, <<>>, <<>>)

\* Per-index sub-documents for the index names idx (a sequence), the first
\* index taking (s, z) and any other the fixed thin values
Details(idx, s) ==
    [n \in Range(idx) |-> IF n = idx[1] THEN s ELSE ThinIndexSample]

ISizes(idx, z) ==
    [n \in Range(idx) |-> IF n = idx[1] THEN z ELSE {100}]

ThinAnswer(idx) ==
    Answer("ok", ThinSample, ThinSizeDoc,
           Details(idx, ThinIndexSample), ISizes(idx, {100}))

RichAnswers(idx) ==
    { NoDoc("raise"), NoDoc("viewerr"), NoDoc("nocache") }
    \cup { Answer("ok", ca[1], ca[2], Details(idx, ia[1]), ISizes(idx, ia[2])) :
             ca \in CollAnswers, ia \in IndexAnswers }

\* What db.command("collstats", name) can answer for Universe[i]
AnswersFor(i) ==
    IF i \in RichEntries THEN RichAnswers(indexes[i]) ELSE {ThinAnswer(indexes[i])}

\* One answer per element of a sequence of Universe indexes
RECURSIVE AnswerSeqs(_)
AnswerSeqs(is) ==
    IF is = <<>> THEN {<<>>}
    ELSE {<<a>> \o t : a \in AnswersFor(Head(is)), t \in AnswerSeqs(Tail(is))}

\* The Universe indexes in catalog, in listing order
RECURSIVE Listing(_)
Listing(k) ==
    IF k > Len(Universe) THEN <<>>
    ELSE (IF k \in catalog THEN <<k>> ELSE <<>>) \o Listing(k + 1)

\* collection created after start-up
CreateCollection ==
    /\ pc \in {"loop", "idle"}
    /\ \E i \in Creatable \ catalog :
          /\ catalog' = catalog \cup {i}
          /\ created' = created \cup {i}
    /\ UNCHANGED <<variant, pc, attempts, error, exitStatus, indexes,
                   cliVars, dashVars>>

\* index created after start-up
CreateIndex ==
    /\ pc \in {"loop", "idle"}
    /\ \E i \in IndexTargets \cap catalog :
          /\ Len(indexes[i]) < MaxIndexes
          /\ indexes' = [indexes EXCEPT ![i] = Append(@, ExtraIndexes[Len(@)])]
    /\ UNCHANGED <<variant, pc, attempts, error, exitStatus, catalog, created,
                   cliVars, dashVars>>

-----------------------------------------------------------------------------
(* The console monitor: inventory.                                         *)

IndexInfo(name) ==
    [name |-> name, inCache |-> 0, cacheRead |-> 0, cacheWrite |-> 0,
     pagesUsed |-> 0]

\* The record appended for one listed collection; a is the answer of the
\* collstats command issued inside try/except
NewCollInfo(i, a) ==
    LET failed == a.kind = "raise"
        data_size == IF failed THEN 0 ELSE Get(a.sizes.size, 0)
    IN  [db |-> Universe[i].db,
         coll |-> Universe[i].name,
         inCache |-> 0, cacheRead |-> 0, cacheWrite |-> 0, pagesUsed |-> 0,
         dataSize |-> data_size,
         storageSize |-> IF failed THEN 0 ELSE Get(a.sizes.storageSize, data_size),
         docCount |-> IF failed THEN 0 ELSE Get(a.sizes.count, 0),
         avgDocSize |-> IF failed THEN 0 ELSE Get(a.sizes.avgObjSize, 0),
         indexesInfo |-> [k \in DOMAIN indexes[i] |-> IndexInfo(indexes[i][k])]]

\* An inventory that keeps views
InventoryFilterAll(is) == is

\* The listed entries that get a record: views are skipped
InventoryFilter(is) == SelectSeq(is, LAMBDA i : Universe[i].type # "view")

\* cli: the loops over dbNames and list_collections()
Inventory ==
    /\ variant = "cli"
    /\ pc = "connected"
    /\ LET is == InventoryFilter(Listing(1))
       IN  \E as \in AnswerSeqs(is) :
              collectionInfos' = [k \in DOMAIN is |-> NewCollInfo(is[k], as[k])]
    /\ skips' = [k \in DOMAIN collectionInfos' |-> 0]
    /\ spanned' = [k \in DOMAIN collectionInfos' |-> 0]
    /\ pc' = "loop"
    /\ UNCHANGED <<variant, attempts, error, exitStatus, table_data, lastStats, repeated,
                   prevInfos, serverVars, dashVars>>

-----------------------------------------------------------------------------
(* The console monitor: one pass of the monitoring loop.                   *)

\* The rate with floor division (current - previous) // reportTime
DeltaFloor(current, previous) == (current - previous) \div reportTime

\* int((current - previous) / reportTime)
Delta(current, previous) ==
    PyInt(RatDiv(FromInt(current - previous), FromInt(reportTime)))

\* doc_cache_pct without the cap at 100
DocCachePctUncapped(doc_cache_bytes, data_size) ==
    IF data_size > 0
    THEN RatMul(RatDiv(RatDiv(FromInt(doc_cache_bytes), COLLECTION_CACHE_OVERHEAD),
                       FromInt(data_size)), FromInt(100))
    ELSE FromInt(0)

\* doc_cache_pct
DocCachePct(doc_cache_bytes, data_size) ==
    LET adjusted_doc_cache ==
            RatDiv(FromInt(doc_cache_bytes), COLLECTION_CACHE_OVERHEAD)
        doc_cache_pct ==
            IF data_size > 0
            THEN RatMul(RatDiv(adjusted_doc_cache, FromInt(data_size)), FromInt(100))
            ELSE FromInt(0)
    IN  RatMin(doc_cache_pct, FromInt(100))

\* index_cache_pct with the collections' factor
IndexCachePctCollFactor(index_cache_bytes, index_size) ==
    IF index_size > 0
    THEN RatMin(RatMul(RatDiv(RatDiv(FromInt(index_cache_bytes),
                                     COLLECTION_CACHE_OVERHEAD),
                              FromInt(index_size)), FromInt(100)), FromInt(100))
    ELSE FromInt(0)

\* index_cache_pct
IndexCachePct(index_cache_bytes, index_size) ==
    LET adjusted_index_cache ==
            RatDiv(FromInt(index_cache_bytes), INDEX_CACHE_OVERHEAD)
        index_cache_pct ==
            IF index_size > 0
            THEN RatMul(RatDiv(adjusted_index_cache, FromInt(index_size)), FromInt(100))
            ELSE FromInt(0)
    IN  RatMin(index_cache_pct, FromInt(100))

\* One row of table_data; dataSize is {} for the None of an index row
Row(ns, type, cache, dataSize, storageSize, pct, prev, cur) ==
    [ns |-> ns, type |-> type, cache |-> cache, dataSize |-> dataSize,
     storageSize |-> storageSize, pct |-> pct,
     sizeDiff |-> Delta(cur.inCache, prev.inCache),
     readDiff |-> Delta(cur.cacheRead, prev.cacheRead),
     writeDiff |-> Delta(cur.cacheWrite, prev.cacheWrite),
     pageUseDiff |-> Delta(cur.pagesUsed, prev.pagesUsed)]

\* A record whose stored counters are left as they were
StoredStale(info, cur) == info

\* The four stored counters of a record overwritten with the current ones
Stored(info, cur) ==
    [info EXCEPT !.inCache = cur.inCache, !.cacheRead = cur.cacheRead,
                 !.cacheWrite = cur.cacheWrite, !.pagesUsed = cur.pagesUsed]

\* Whether an index row is appended
IndexRowShown(index_size) == index_size > 0

\* A collection row appended whatever its size
CollRowShownAlways(data_size) == TRUE

\* Whether a collection row is appended (and the record and its indexes updated)
CollRowShown(data_size) == data_size > 0

\* The body of "for indexInfo in collInfo['indexesInfo']" from position k on.
\* st = [infos, table, crashed]
RECURSIVE IndexLoop(_, _, _, _)
IndexLoop(ns, a, k, st) ==
    IF st.crashed \/ k > Len(st.infos) THEN st
    ELSE LET indexInfo == st.infos[k]
             indexName == indexInfo.name
         IN  IF \/ indexName \notin DOMAIN a.indexDetails
                \/ a.indexSizes[indexName] = {}
             THEN [st EXCEPT !.crashed = TRUE]
             ELSE LET cur == a.indexDetails[indexName]
                      index_size == Get(a.indexSizes[indexName], 0)
                      row == Row(Namespace(ns, indexName), "Index", cur.inCache,
                                 {}, index_size,
                                 IndexCachePct(cur.inCache, index_size),
                                 indexInfo, cur)
                  IN  IndexLoop(ns, a, k + 1,
                          [infos |-> [st.infos EXCEPT ![k] = Stored(indexInfo, cur)],
                           table |-> IF IndexRowShown(index_size)
                                     THEN Append(st.table, row) ELSE st.table,
                           crashed |-> FALSE])

\* A pass that skips no record
SkipSystemNever(collInfo) == FALSE

\* Whether the pass skips a record before reading its counters
SkipSystem(collInfo) == StartsWith(collInfo.coll, SystemPrefix)

\* A left-out record whose counters are stored all the same
LeftOutStored(sized, cur) == Stored(sized, cur)

\* The record of a collection left out for its data size ("else: continue"):
\* sized is the record with dataSize and storageSize already refreshed, and
\* the pass goes to the next record before it stores the counters cur or
\* enters the index loop
LeftOut(sized, cur) == sized

\* A pass without the second look for views
SkipViewNever(collStats) == FALSE

\* Whether collStats is the document a view answers with:
\* "errmsg" in collStats and collStats["errmsg"] == "Collection stats not
\* supported on views"
SkipView(collStats) == collStats.kind = "viewerr"

\* The body of "for collInfo in collectionInfos" for one record and its
\* answer a.  An answer without the wiredTiger sub-document (the view's
\* document is one) raises KeyError where the counters are read.  Yields
\* [info, table, crashed]
CollStep(collInfo, a, table) ==
    LET same == [info |-> collInfo, table |-> table, crashed |-> FALSE]
    IN  IF a.kind = "raise" THEN [same EXCEPT !.crashed = TRUE]
        ELSE IF SkipSystem(collInfo) THEN same
        ELSE IF SkipView(a) THEN same
        ELSE IF a.kind \in {"nocache", "viewerr"} THEN [same EXCEPT !.crashed = TRUE]
        ELSE
          LET data_size == Get(a.sizes.size, 0)
              storage_size == Get(a.sizes.storageSize, data_size)
              sized == [collInfo EXCEPT !.dataSize = data_size,
                                        !.storageSize = storage_size]
              ns == Namespace(collInfo.db, collInfo.coll)
              row == Row(ns, "Collection", a.cache.inCache, {data_size},
                         storage_size, DocCachePct(a.cache.inCache, data_size),
                         collInfo, a.cache)
          IN  IF ~CollRowShown(data_size)
              THEN [same EXCEPT !.info = LeftOut(sized, a.cache)]
              ELSE LET ix == IndexLoop(ns, a, 1,
                                 [infos |-> collInfo.indexesInfo,
                                  table |-> Append(table, row),
                                  crashed |-> FALSE])
                   IN  [info |-> [Stored(sized, a.cache) EXCEPT
                                     !.indexesInfo = ix.infos],
                        table |-> ix.table,
                        crashed |-> ix.crashed]

\* The for loop from record k on.  st = [infos, table, crashed]
RECURSIVE CollLoop(_, _, _)
CollLoop(as, k, st) ==
    IF st.crashed \/ k > Len(st.infos) THEN st
    ELSE LET r == CollStep(st.infos[k], as[k], st.table)
         IN  CollLoop(as, k + 1,
                 [infos |-> [st.infos EXCEPT ![k] = r.info],
                  table |-> r.table,
                  crashed |-> r.crashed])

\* sorted(table_data, key=lambda kv: kv[2], reverse=True): stable
RECURSIVE InsertRow(_, _)
InsertRow(row, sorted) ==
    IF sorted = <<>> THEN <<row>>
    ELSE IF Head(sorted).cache >= row.cache
         THEN <<Head(sorted)>> \o InsertRow(row, Tail(sorted))
         ELSE <<row>> \o sorted

\* sorted(table_data, key=lambda kv: kv[2]): ascending
RECURSIVE InsertRowAscending(_, _)
InsertRowAscending(row, sorted) ==
    IF sorted = <<>> THEN <<row>>
    ELSE IF Head(sorted).cache <= row.cache
         THEN <<Head(sorted)>> \o InsertRowAscending(row, Tail(sorted))
         ELSE <<row>> \o sorted

RECURSIVE SortRowsAscending(_)
SortRowsAscending(rows) ==
    IF rows = <<>> THEN <<>>
    ELSE InsertRowAscending(rows[Len(rows)],
                            SortRowsAscending(SubSeq(rows, 1, Len(rows) - 1)))

RECURSIVE SortRows(_)
SortRows(rows) ==
    IF rows = <<>> THEN <<>>
    ELSE InsertRow(rows[Len(rows)], SortRows(SubSeq(rows, 1, Len(rows) - 1)))

\* The pass reads for collInfo a data size that is zero or absent / positive
\* (the two branches of "if data_size > 0")
ReadsNoData(collInfo, a) ==
    /\ a.kind = "ok"
    /\ ~StartsWith(collInfo.coll, SystemPrefix)
    /\ Get(a.sizes.size, 0) <= 0

ReadsData(collInfo, a) ==
    /\ a.kind = "ok"
    /\ ~StartsWith(collInfo.coll, SystemPrefix)
    /\ Get(a.sizes.size, 0) > 0

\* The longest run of left-out passes that skips tells apart
MaxSkips == 2

SkipsOf(k) == IF k \in DOMAIN skips THEN skips[k] ELSE 0

\* One iteration of "while True" over the tracking list infos.  An exception
\* ends the script before the table is printed, on a screen the pass has
\* cleared
PassOver(infos) ==
    /\ variant = "cli"
    /\ pc = "loop"
    /\ \E as \in AnswerSeqs([k \in DOMAIN infos |->
                               UIndex(infos[k].db, infos[k].coll)]) :
          \E r \in {CollLoop(as, 1, [infos |-> infos, table |-> <<>>,
                                     crashed |-> FALSE])} :
              /\ collectionInfos' = r.infos
              /\ table_data' = IF r.crashed THEN <<>> ELSE SortRows(r.table)
              /\ pc' = IF r.crashed THEN "crashed" ELSE "loop"
              /\ lastStats' = <<as, catalog, indexes>>
              /\ repeated' = (lastStats # <<>> /\ lastStats[1] = as)
              /\ prevInfos' = infos
              /\ skips' = [k \in DOMAIN infos |->
                              IF r.crashed THEN SkipsOf(k)
                              ELSE IF ReadsNoData(infos[k], as[k])
                                   THEN (IF SkipsOf(k) < MaxSkips
                                         THEN SkipsOf(k) + 1 ELSE MaxSkips)
                              ELSE IF ReadsData(infos[k], as[k]) THEN 0
                              ELSE SkipsOf(k)]
              /\ spanned' = [k \in DOMAIN infos |->
                                IF ~r.crashed /\ ReadsData(infos[k], as[k])
                                THEN SkipsOf(k) ELSE 0]
    /\ UNCHANGED <<variant, attempts, error, exitStatus, serverVars, dashVars>>

\* A pass that first lists the server again and tracks what is new
SamplePassRelisting ==
    LET is == InventoryFilter(Listing(1))
        new == SelectSeq(is, LAMBDA i :
                   \A k \in DOMAIN collectionInfos :
                       UIndex(collectionInfos[k].db, collectionInfos[k].coll) # i)
    IN  PassOver(collectionInfos
                 \o [k \in DOMAIN new |-> NewCollInfo(new[k], ThinAnswer(<<>>))])

\* cli: one iteration of "while True"
SamplePass == PassOver(collectionInfos)

-----------------------------------------------------------------------------
(* The dashboard: one run of the script after the connection.              *)

TotalCacheSizes == {1620, 6000}

DenominatorChoices == {"Sum of Used Cache", "Total WiredTiger Cache"}

\* doc_cache_pct of get_collection_stats
DashDocCachePct(doc_cache_bytes, data_size) ==
    LET adjusted_doc_cache ==
            RatDiv(FromInt(doc_cache_bytes), COLLECTION_CACHE_OVERHEAD)
        doc_cache_pct ==
            IF data_size > 0
            THEN RatMul(RatDiv(adjusted_doc_cache, FromInt(data_size)), FromInt(100))
            ELSE FromInt(0)
    IN  RatMin(doc_cache_pct, FromInt(100))

\* index_cache_pct of the per-index loop of get_collection_stats
DashIndexCachePct(index_cache_bytes, index_size) ==
    LET adjusted_index_cache ==
            RatDiv(FromInt(index_cache_bytes), INDEX_CACHE_OVERHEAD)
        index_cache_pct ==
            IF index_size > 0
            THEN RatMul(RatDiv(adjusted_index_cache, FromInt(index_size)), FromInt(100))
            ELSE FromInt(0)
    IN  RatMin(index_cache_pct, FromInt(100))

\* est_docs_in_cache
EstDocsInCache(doc_cache_bytes, avg_doc_size, doc_count) ==
    LET adjusted_doc_cache ==
            RatDiv(FromInt(doc_cache_bytes), COLLECTION_CACHE_OVERHEAD)
        est == IF avg_doc_size > 0
               THEN PyInt(RatDiv(adjusted_doc_cache, FromInt(avg_doc_size)))
               ELSE 0
    IN  IF doc_count < est THEN doc_count ELSE est

DetailRow(ns, type, indexName, cache, dataSize, storageSize, pct, docs, avg, est) ==
    [ns |-> ns, type |-> type, indexName |-> indexName, cache |-> cache,
     dataSize |-> dataSize, storageSize |-> storageSize, pct |-> pct,
     totalDocs |-> docs, avgDocSize |-> avg, estDocs |-> est]

\* The index names of an answer, in the listing order idx of the server
AnswerIndexes(a, idx) == SelectSeq(idx, LAMBDA n : n \in DOMAIN a.indexDetails)

\* The rows appended by "for indexName, indexStats in indexDetails.items()"
DashIndexRows(ns, a, names) ==
    [k \in DOMAIN names |->
        LET index_cache_bytes == a.indexDetails[names[k]].inCache
            index_size == Get(a.indexSizes[names[k]], 0)
        IN  DetailRow(ns, "Index", names[k], index_cache_bytes, {}, index_size,
                      DashIndexCachePct(index_cache_bytes, index_size),
                      {}, {}, {})]

\* The entries of the listing that get_collection_stats queries
DashFilter(is) ==
    SelectSeq(is, LAMBDA i : /\ Universe[i].type # "view"
                             /\ ~StartsWith(Universe[i].name, SystemPrefix))

\* The body of "for collection in collections" for a queried entry i and
\* its answer a.  st = [data, stats, raised]
DashStep(i, a, st) ==
    IF a.kind = "raise" THEN [st EXCEPT !.raised = TRUE]
    ELSE IF a.kind = "viewerr" THEN st
    ELSE IF a.kind = "nocache" \/ a.sizes.size = {} THEN [st EXCEPT !.raised = TRUE]
    ELSE
      LET ns == Namespace(Universe[i].db, Universe[i].name)
          doc_cache_bytes == a.cache.inCache
          data_size == Get(a.sizes.size, 0)
          storage_size == Get(a.sizes.storageSize, data_size)
          doc_count == Get(a.sizes.count, 0)
          avg_doc_size == Get(a.sizes.avgObjSize, 0)
          names == AnswerIndexes(a, indexes[i])
          total_index_cache ==
              SumSeq([k \in DOMAIN names |-> a.indexDetails[names[k]].inCache])
          total_cache == doc_cache_bytes + total_index_cache
          row == DetailRow(ns, "Collection", <<>>, doc_cache_bytes, {data_size},
                           storage_size, DashDocCachePct(doc_cache_bytes, data_size),
                           {doc_count}, {avg_doc_size},
                           {EstDocsInCache(doc_cache_bytes, avg_doc_size, doc_count)})
      IN  [data |-> Append(st.data, [name |-> ns, inCache |-> total_cache]),
           stats |-> Append(st.stats, row) \o DashIndexRows(ns, a, names),
           raised |-> FALSE]

RECURSIVE DashLoop(_, _, _, _)
DashLoop(is, as, k, st) ==
    IF st.raised \/ k > Len(is) THEN st
    ELSE DashLoop(is, as, k + 1, DashStep(is[k], as[k], st))

\* The label "Unused Cache" (one element: no namespace is spelled so)
UnusedLabel == <<"Unused Cache">>

\* create_pie_chart adding the unused slice in either mode
CreatePieChartAnyMode(data, total, choice) ==
    LET labels == [k \in DOMAIN data |-> data[k].name]
        values == [k \in DOMAIN data |-> data[k].inCache]
        unused_cache == total - SumSeq(values)
    IN  IF unused_cache > 0
        THEN [labels |-> Append(labels, UnusedLabel),
              values |-> Append(values, unused_cache)]
        ELSE [labels |-> labels, values |-> values]

\* create_pie_chart(data, total_cache_size, denominator_choice)
CreatePieChart(data, total, choice) ==
    LET labels == [k \in DOMAIN data |-> data[k].name]
        values == [k \in DOMAIN data |-> data[k].inCache]
        sum_used_cache == SumSeq(values)
        unused_cache == total - sum_used_cache
    IN  IF choice = "Total WiredTiger Cache" /\ unused_cache > 0
        THEN [labels |-> Append(labels, UnusedLabel),
              values |-> Append(values, unused_cache)]
        ELSE [labels |-> labels, values |-> values]

\* dash: get_collection_stats, the table and the pie of one run.  An
\* exception (a failed collstats, a missing key, the empty DataFrame that has
\* no "Cache Used" column) is shown by st.error and ends the run with neither
\* table nor pie and without st.rerun()
Refresh ==
    /\ variant = "dash"
    /\ pc = "connected"
    /\ LET is == DashFilter(Listing(1))
       IN  \E as \in AnswerSeqs(is), total \in TotalCacheSizes,
              choice \in DenominatorChoices :
              \E r \in {DashLoop(is, as, 1,
                        [data |-> <<>>, stats |-> <<>>, raised |-> FALSE])} :
                  IF r.raised \/ r.stats = <<>>
                  THEN /\ collection_data' = <<>>
                       /\ detailed_stats' = <<>>
                       /\ pie' = NoPie
                       /\ total_cache_size' = 0
                       /\ denominator_choice' = ""
                       /\ error' = <<"Error occurred">>
                       /\ pc' = "failed"
                  ELSE /\ collection_data' = r.data
                       /\ detailed_stats' = r.stats
                       /\ pie' = CreatePieChart(r.data, total, choice)
                       /\ total_cache_size' = total
                       /\ denominator_choice' = choice
                       /\ error' = error
                       /\ pc' = "idle"
    /\ UNCHANGED <<variant, attempts, exitStatus, serverVars, cliVars>>

\* dash: time.sleep(60) is over and st.rerun() starts the script again, with
\* nothing of the new run rendered yet
Rerun ==
    /\ variant = "dash"
    /\ pc = "idle"
    /\ pc' = "start"
    /\ attempts' = <<>>
    /\ collection_data' = <<>>
    /\ detailed_stats' = <<>>
    /\ pie' = NoPie
    /\ total_cache_size' = 0
    /\ denominator_choice' = ""
    /\ UNCHANGED <<variant, error, exitStatus, serverVars, cliVars>>

-----------------------------------------------------------------------------
(* The specification.                                                      *)

Init ==
    /\ variant \in {"cli", "dash"}
    /\ pc = "start"
    /\ attempts = <<>>
    /\ error = <<>>
    /\ exitStatus = {}
    /\ catalog \in StartCatalogs
    /\ indexes = [i \in DOMAIN Universe |->
                    IF Universe[i].type = "view" THEN <<>> ELSE <<IdIndex>>]
    /\ created = {}
    /\ collectionInfos = <<>>
    /\ table_data = <<>>
    /\ lastStats = <<>>
    /\ repeated = FALSE
    /\ prevInfos = <<>>
    /\ skips = <<>>
    /\ spanned = <<>>
    /\ collection_data = <<>>
    /\ detailed_stats = <<>>
    /\ pie = NoPie
    /\ total_cache_size = 0
    /\ denominator_choice = ""

Next ==
    \/ CliConnectPlain
    \/ CliConnectTLS
    \/ DashConnectPlain
    \/ DashConnectTLS
    \/ Inventory
    \/ SamplePass
    \/ Refresh
    \/ Rerun
    \/ CreateCollection
    \/ CreateIndex

Spec == Init /\ [][Next]_vars

-----------------------------------------------------------------------------
(* Properties.  A completed pass of the console monitor leaves, besides    *)
(* the program's state, the answers it read (lastStats) and the records it *)
(* found (prevInfos).                                                      *)

PassDone == variant = "cli" /\ pc = "loop" /\ lastStats # <<>>

AnswerOf(k) == lastStats[1][k]

NsOf(info) == Namespace(info.db, info.coll)

\* The rows of the printed table for tracked record k, and for its index j
CollRows(k) ==
    {r \in Range(table_data) :
        r.type = "Collection" /\ r.ns = NsOf(collectionInfos[k])}

IndexRows(k, j) ==
    {r \in Range(table_data) :
        /\ r.type = "Index"
        /\ r.ns = Namespace(NsOf(collectionInfos[k]),
                            collectionInfos[k].indexesInfo[j].name)}

\* q is d / 60 rounded toward zero
IsTruncated(q, d) ==
    /\ Abs(q) * 60 <= Abs(d)
    /\ Abs(d) < Abs(q) * 60 + 60
    /\ (d >= 0 => q >= 0)
    /\ (d <= 0 => q <= 0)

\* q is floor(d / 60)
IsFloored(q, d) == q * 60 <= d /\ d < q * 60 + 60

\* The four deltas of row r are rate(delta, current - previous), for the
\* current counters cur and the stored ones prev
RowDeltas(r, cur, prev, rate(_, _)) ==
    /\ rate(r.sizeDiff, cur.inCache - prev.inCache)
    /\ rate(r.readDiff, cur.cacheRead - prev.cacheRead)
    /\ rate(r.writeDiff, cur.cacheWrite - prev.cacheWrite)
    /\ rate(r.pageUseDiff, cur.pagesUsed - prev.pagesUsed)

AllRowDeltas(rate(_, _)) ==
    PassDone =>
        \A k \in DOMAIN collectionInfos :
            /\ \A r \in CollRows(k) :
                  RowDeltas(r, AnswerOf(k).cache, prevInfos[k], rate)
            /\ \A j \in DOMAIN collectionInfos[k].indexesInfo :
                  \A r \in IndexRows(k, j) :
                      RowDeltas(r,
                          AnswerOf(k).indexDetails[collectionInfos[k].indexesInfo[j].name],
                          prevInfos[k].indexesInfo[j], rate)

\* C1 (as amended): in every collection row and every index row of a pass,
\* each of the four deltas is (current - previous) / 60 rounded toward zero,
\* previous being the value stored on the record: never clamped,
\* non-negative when current >= previous and non-positive otherwise, and a
\* difference of -1 gives 0.
C1_DeltaTruncates == AllRowDeltas(IsTruncated)

\* C1 (as claimed): each delta is floor((current - previous) / 60), so a
\* difference of -1 gives -1.
C1_DeltaFloors == AllRowDeltas(IsFloored)

\* C1 witness: a printed collection row and a printed index row whose
\* bytes-read counter went down by less than 60 and whose delta is 0.
C1_Witness ==
    /\ PassDone
    /\ \E k \in DOMAIN collectionInfos :
          /\ \E r \in CollRows(k) :
                /\ AnswerOf(k).cache.cacheRead - prevInfos[k].cacheRead = -1
                /\ r.readDiff = 0
          /\ \E j \in DOMAIN collectionInfos[k].indexesInfo :
                \E r \in IndexRows(k, j) :
                    /\ AnswerOf(k).indexDetails[collectionInfos[k].indexesInfo[j].name].cacheRead
                          - prevInfos[k].indexesInfo[j].cacheRead = -1
                    /\ r.readDiff = 0

\* C2 (as claimed): after every pass, every tracked collection whose name
\* does not begin with "system." and whose answer is not the view error
\* holds, as its four stored counters, the values read in that pass.
C2_StoredIsRead ==
    PassDone =>
        \A k \in DOMAIN collectionInfos :
            (/\ ~StartsWith(collectionInfos[k].coll, SystemPrefix)
             /\ AnswerOf(k).kind # "viewerr")
            => /\ collectionInfos[k].inCache = AnswerOf(k).cache.inCache
               /\ collectionInfos[k].cacheRead = AnswerOf(k).cache.cacheRead
               /\ collectionInfos[k].cacheWrite = AnswerOf(k).cache.cacheWrite
               /\ collectionInfos[k].pagesUsed = AnswerOf(k).cache.pagesUsed

ZeroDeltas(r) ==
    r.sizeDiff = 0 /\ r.readDiff = 0 /\ r.writeDiff = 0 /\ r.pageUseDiff = 0

\* C3: a pass that reads the same statistics as the pass before it prints
\* a delta of 0 for all four counters in every collection and index row.
C3_RepeatedPassZero ==
    (PassDone /\ repeated) => \A r \in Range(table_data) : ZeroDeltas(r)

\* C3 witness: such a pass has printed a collection row and an index row.
C3_Witness ==
    /\ PassDone
    /\ repeated
    /\ \E r \in Range(table_data) : r.type = "Collection"
    /\ \E r \in Range(table_data) : r.type = "Index"

\* 0 <= p <= 100
InPercentRange(p) == p.d > 0 /\ p.n >= 0 /\ p.n <= 100 * p.d

\* The size a percent-cached figure of a row is taken against
RowSize(r) == IF r.type = "Collection" THEN Get(r.dataSize, 0) ELSE r.storageSize

\* C4: every percent-cached figure, of the console table and of the
\* dashboard, is within [0, 100], and is 0 when the size is 0; this also
\* holds of the figures the console pass computes for the rows it omits.
C4_PercentInRange ==
    /\ \A r \in Range(table_data) \cup Range(detailed_stats) :
          /\ InPercentRange(r.pct)
          /\ RowSize(r) = 0 => r.pct.n = 0
    /\ PassDone =>
          \A k \in DOMAIN collectionInfos :
              LET a == AnswerOf(k)
                  size == Get(a.sizes.size, 0)
              IN  a.kind = "ok" =>
                    /\ InPercentRange(DocCachePct(a.cache.inCache, size))
                    /\ size = 0 => DocCachePct(a.cache.inCache, size).n = 0
                    /\ \A n \in DOMAIN a.indexDetails :
                          LET isize == Get(a.indexSizes[n], 0)
                              p == IndexCachePct(a.indexDetails[n].inCache, isize)
                          IN  InPercentRange(p) /\ (isize = 0 => p.n = 0)

\* C4 witness: the dashboard shows a collection row of size 0 at 0 percent
\* beside an index row capped at 100 percent.
C4_Witness ==
    /\ \E r \in Range(detailed_stats) :
          r.type = "Collection" /\ RowSize(r) = 0 /\ r.cache > 0 /\ r.pct.n = 0
    /\ \E r \in Range(detailed_stats) :
          r.type = "Index" /\ r.pct = [n |-> 100, d |-> 1]

\* pct = min(100, (cache / (f / 100)) / size * 100), for size > 0
IsCappedRatio(pct, cache, size, f) ==
    IF cache * 100 * 100 >= 100 * f * size
    THEN pct = [n |-> 100, d |-> 1]
    ELSE pct.d > 0 /\ pct.n * f * size = pct.d * cache * 100 * 100

\* The figure of row r follows the formula, with 1.25 and the data size for
\* a collection and 0.80 and the index size for an index
RowFollowsFormula(r) ==
    RowSize(r) > 0 =>
        IsCappedRatio(r.pct, r.cache, RowSize(r),
                      IF r.type = "Collection" THEN 125 ELSE 80)

\* C5: the percent-cached figure of every console and dashboard row of
\* positive size is min(100, (cacheBytes / factor) / size * 100); the
\* console's rows take cacheBytes and size from the statistics read in the
\* pass (size being the index's entry in indexSizes for an index row); and
\* (125, 100) and (1000, 100) give 100 for a collection, (80, 100) gives 100
\* for an index.
C5_PercentFormula ==
    /\ \A r \in Range(table_data) \cup Range(detailed_stats) :
          /\ RowFollowsFormula(r)
          /\ (r.type = "Collection" /\ r.cache \in {125, 1000} /\ RowSize(r) = 100)
                => r.pct = [n |-> 100, d |-> 1]
          /\ (r.type = "Index" /\ r.cache = 80 /\ RowSize(r) = 100)
                => r.pct = [n |-> 100, d |-> 1]
    /\ PassDone =>
          \A k \in DOMAIN collectionInfos :
              /\ \A r \in CollRows(k) :
                    /\ r.cache = AnswerOf(k).cache.inCache
                    /\ r.dataSize = AnswerOf(k).sizes.size
              /\ \A j \in DOMAIN collectionInfos[k].indexesInfo :
                    \A r \in IndexRows(k, j) :
                        LET n == collectionInfos[k].indexesInfo[j].name
                        IN  /\ r.cache = AnswerOf(k).indexDetails[n].inCache
                            /\ {r.storageSize} = AnswerOf(k).indexSizes[n]

\* C5 witness: the console table holds the collection row (125, 100) and
\* the index row (80, 100), both at 100 percent.
C5_Witness ==
    /\ \E r \in Range(table_data) :
          /\ r.type = "Collection" /\ r.cache = 125 /\ RowSize(r) = 100
          /\ r.pct = [n |-> 100, d |-> 1]
    /\ \E r \in Range(table_data) :
          /\ r.type = "Index" /\ r.cache = 80 /\ RowSize(r) = 100
          /\ r.pct = [n |-> 100, d |-> 1]

-----------------------------------------------------------------------------
(* What is rendered: the console table, the dashboard's table, its pie     *)
(* input and the pie.                                                      *)

OutputNs ==
    {r.ns : r \in Range(table_data)}
    \cup {r.ns : r \in Range(detailed_stats)}
    \cup {d.name : d \in Range(collection_data)}
    \cup Range(pie.labels)

IndexNames == {IdIndex} \cup Range(ExtraIndexes)

EntryNs(i) == Namespace(Universe[i].db, Universe[i].name)

\* Nothing rendered is about Universe[i] or one of its indexes
NotRendered(i) ==
    /\ EntryNs(i) \notin OutputNs
    /\ \A n \in IndexNames : Namespace(EntryNs(i), n) \notin OutputNs

\* C6 (as amended): a collection whose collection name starts with
\* "system." is never rendered by either script (no collection row, no
\* index row, no pie slice), though the console monitor tracks it.
C6_SystemNameNeverRendered ==
    \A i \in DOMAIN Universe :
        StartsWith(Universe[i].name, SystemPrefix) => NotRendered(i)

\* C6 (as claimed): nothing rendered carries a namespace (database name,
\* ".", collection name) that starts with "system.".
C6_SystemNamespaceNeverRendered ==
    \A ns \in OutputNs : ~StartsWith(ns, SystemPrefix)

\* C6 witness: a pass has printed rows while a record named "system.p" was
\* being tracked.
C6_Witness ==
    /\ PassDone
    /\ table_data # <<>>
    /\ \E k \in DOMAIN collectionInfos :
          StartsWith(collectionInfos[k].coll, SystemPrefix)

\* The tracked collections with their tracked index names
Tracked ==
    [k \in DOMAIN collectionInfos |->
        <<collectionInfos[k].db, collectionInfos[k].coll,
          [j \in DOMAIN collectionInfos[k].indexesInfo |->
              collectionInfos[k].indexesInfo[j].name]>>]

\* Nothing rendered is about an index of the names ns
NoIndexRendered(i, names) ==
    /\ \A n \in names : Namespace(EntryNs(i), n) \notin OutputNs
    /\ \A r \in Range(detailed_stats) :
          ~(r.ns = EntryNs(i) /\ r.type = "Index" /\ r.indexName \in names)

\* No collection and no index created after start-up is rendered
CreatedNeverRendered ==
    /\ \A i \in created : NotRendered(i)
    /\ \A i \in DOMAIN Universe : NoIndexRendered(i, Range(ExtraIndexes))

\* C7 (as amended): in the console monitor the tracked collections and
\* their tracked indexes are fixed once the inventory is built (no pass
\* adds or removes a record), and no collection or index created after
\* start-up is ever printed.
C7_CliTrackingFixed ==
    /\ [](variant = "cli" => CreatedNeverRendered)
    /\ [][pc = "loop" => Tracked' = Tracked]_vars

\* C7 (as claimed): in either script, no collection or index created after
\* start-up appears in any later output.
C7_CreatedNeverAppears == CreatedNeverRendered

\* C7 witness: a console pass has run on a server holding a collection and
\* an index created after start-up, and has printed rows.
C7_Witness ==
    /\ PassDone
    /\ table_data # <<>>
    /\ created # {}
    /\ created \subseteq lastStats[2]
    /\ \E i \in DOMAIN Universe : XIndex \in Range(lastStats[3][i])

\* C8: a collection listed with type "view" gets no tracking record and is
\* never rendered by either script.
C8_ViewsExcluded ==
    \A i \in DOMAIN Universe :
        Universe[i].type = "view" =>
            /\ NotRendered(i)
            /\ \A k \in DOMAIN collectionInfos :
                  ~(/\ collectionInfos[k].db = Universe[i].db
                    /\ collectionInfos[k].coll = Universe[i].name)

\* C8 witness: a pass has printed rows while the server lists a view.
C8_Witness ==
    /\ PassDone
    /\ table_data # <<>>
    /\ \E i \in lastStats[2] : Universe[i].type = "view"

\* The answer read for record k is a full document whose data size is zero
\* or absent, or whose tracked indexes all have an indexSizes entry
ZeroSizeOnly(k) ==
    LET a == AnswerOf(k)
    IN  /\ a.kind = "ok"
        /\ Get(a.sizes.size, 0) > 0 =>
              \A j \in DOMAIN prevInfos[k].indexesInfo :
                  /\ prevInfos[k].indexesInfo[j].name \in DOMAIN a.indexDetails
                  /\ a.indexSizes[prevInfos[k].indexesInfo[j].name] # {}

\* C9 (as amended): in every pass of the console monitor, a collection
\* whose data size is zero or absent and an index whose size is zero get no
\* row, without an error being raised, and every printed row has a
\* strictly positive size.
C9_CliZeroSizeOmitted ==
    /\ \A r \in Range(table_data) : RowSize(r) > 0
    /\ (variant = "cli" /\ lastStats # <<>>
         /\ \A k \in DOMAIN prevInfos : ZeroSizeOnly(k)) => pc = "loop"
    /\ PassDone =>
          \A k \in DOMAIN collectionInfos :
              AnswerOf(k).kind = "ok" =>
                 /\ Get(AnswerOf(k).sizes.size, 0) = 0 => CollRows(k) = {}
                 /\ \A j \in DOMAIN collectionInfos[k].indexesInfo :
                       LET n == collectionInfos[k].indexesInfo[j].name
                       IN  (/\ n \in DOMAIN AnswerOf(k).indexSizes
                            /\ AnswerOf(k).indexSizes[n] = {0})
                           => IndexRows(k, j) = {}

\* C9 (as claimed): every rendered row, of the console table and of the
\* dashboard's table, has a strictly positive size.
C9_AllRowsPositive ==
    \A r \in Range(table_data) \cup Range(detailed_stats) : RowSize(r) > 0

\* C9 witness: a pass read a document without a size for one collection
\* and printed no row for it, and went on.
C9_Witness ==
    /\ PassDone
    /\ \E k \in DOMAIN collectionInfos :
          /\ AnswerOf(k).kind = "ok"
          /\ AnswerOf(k).sizes.size = {}
          /\ AnswerOf(k).cache.inCache > 0
          /\ CollRows(k) = {}

Failed(k) == attempts[k].cause # {}

BothFailed == Len(attempts) = 2 /\ Failed(1) /\ Failed(2)

\* C10: the unencrypted session is tried first and the encrypted one only
\* after the first has failed; after a first success there is no second
\* try; after two failures nothing is inventoried, sampled or rendered,
\* the console monitor has exited with status 1 having printed both causes,
\* and the dashboard has stopped on an error naming both causes.
C10_ConnectionOrder ==
    /\ Len(attempts) <= 2
    /\ Len(attempts) >= 1 => attempts[1].mode = "plain"
    /\ Len(attempts) = 2 => attempts[2].mode = "tls" /\ Failed(1)
    /\ pc \in {"start", "retry"} =>
          /\ collectionInfos = <<>> /\ table_data = <<>> /\ lastStats = <<>>
          /\ collection_data = <<>> /\ detailed_stats = <<>> /\ pie = NoPie
    /\ BothFailed =>
          /\ collectionInfos = <<>> /\ table_data = <<>> /\ lastStats = <<>>
          /\ collection_data = <<>> /\ detailed_stats = <<>> /\ pie = NoPie
          /\ error = <<Get(attempts[1].cause, ""), Get(attempts[2].cause, "")>>
          /\ variant = "cli" => pc = "exited" /\ exitStatus = {1}
          /\ variant = "dash" => pc = "stopped"
    /\ exitStatus # {} => BothFailed

\* C10 witness: the console monitor has exited after two failed tries.
C10_Witness == variant = "cli" /\ pc = "exited" /\ BothFailed

-----------------------------------------------------------------------------
(* Failures inside the monitoring loop.                                    *)

\* The answer read for record k is the view's error document
ViewMarked(k) == AnswerOf(k).kind = "viewerr"

\* Record k is neither skipped nor without data: the pass reads its counters
\* and appends its row
Sampled(k) ==
    /\ AnswerOf(k).kind = "ok"
    /\ ~StartsWith(prevInfos[k].coll, SystemPrefix)
    /\ Get(AnswerOf(k).sizes.size, 0) > 0

\* The statistics of record k cannot be read: the command raises, or a field
\* the pass reads (the wiredTiger counters, the details or the size of a
\* tracked index) is missing from the answer
QueryFails(k) ==
    \/ AnswerOf(k).kind = "raise"
    \/ /\ AnswerOf(k).kind = "nocache"
       /\ ~StartsWith(prevInfos[k].coll, SystemPrefix)
    \/ /\ Sampled(k)
       /\ \E j \in DOMAIN prevInfos[k].indexesInfo :
             LET n == prevInfos[k].indexesInfo[j].name
             IN  \/ n \notin DOMAIN AnswerOf(k).indexDetails
                 \/ AnswerOf(k).indexSizes[n] = {}

CliPassEnded == variant = "cli" /\ lastStats # <<>>

\* C11 (as amended): in the sampling loop of the console monitor, a
\* collection whose statistics answer is the view error marker is skipped
\* for that interval only (no row for it or its indexes, its record as it
\* was), the other collections are sampled and rendered in that pass and the
\* loop goes on; a statistics query that raises, or an answer that lacks a
\* field the pass reads, is not caught: the pass prints no table and the
\* loop ends.
C11_ViewSkippedFailureAborts ==
    CliPassEnded =>
        /\ pc \in {"loop", "crashed"}
        /\ (pc = "crashed") <=> (\E k \in DOMAIN prevInfos : QueryFails(k))
        /\ pc = "crashed" => table_data = <<>>
        /\ pc = "loop" =>
              \A k \in DOMAIN collectionInfos :
                  /\ ViewMarked(k) =>
                        /\ CollRows(k) = {}
                        /\ \A j \in DOMAIN collectionInfos[k].indexesInfo :
                              IndexRows(k, j) = {}
                        /\ collectionInfos[k] = prevInfos[k]
                  /\ Sampled(k) =>
                        \E r \in CollRows(k) : r.cache = AnswerOf(k).cache.inCache

\* C11 as first stated: whatever the statistics queries of a pass answer,
\* the pass renders every collection it could sample and the loop goes on
\* to the next interval.
C11_FailureRecoveredLocally ==
    CliPassEnded =>
        /\ pc = "loop"
        /\ \A k \in DOMAIN collectionInfos :
              Sampled(k) =>
                  \E r \in CollRows(k) : r.cache = AnswerOf(k).cache.inCache

\* A pass that met the view error marker for one collection and rendered
\* another
C11_Witness ==
    /\ PassDone
    /\ \E k \in DOMAIN collectionInfos : ViewMarked(k)
    /\ \E k \in DOMAIN collectionInfos : Sampled(k) /\ CollRows(k) # {}

-----------------------------------------------------------------------------
(* The dashboard's pie chart.                                              *)

RunShown == variant = "dash" /\ pc = "idle"

\* The table rows of one kind reported for namespace ns, in table order
RowsOf(ns, type) ==
    SelectSeq(detailed_stats, LAMBDA r : r.type = type /\ r.ns = ns)

\* Cache bytes of the collection row of ns plus those of its index rows
ReportedCache(ns) ==
    SumSeq([k \in DOMAIN RowsOf(ns, "Collection") |->
               RowsOf(ns, "Collection")[k].cache])
    + SumSeq([k \in DOMAIN RowsOf(ns, "Index") |-> RowsOf(ns, "Index")[k].cache])

\* The positions of the pie that hold a collection's slice
CollSlices == {k \in DOMAIN pie.labels : pie.labels[k] # UnusedLabel}

UnusedSlices == {k \in DOMAIN pie.labels : pie.labels[k] = UnusedLabel}

SumSlices(ks) == SumSeq([k \in DOMAIN pie.values |->
                            IF k \in ks THEN pie.values[k] ELSE 0])

\* C12: the pie of a run of the dashboard has one slice per reported
\* collection namespace, worth the collection's cache bytes plus its
\* indexes' cache bytes; a slice "Unused Cache" is there if and only if the
\* denominator is "Total WiredTiger Cache" and the configured total exceeds
\* the sum of the collections' slices, it is worth the difference (so all
\* slices then add up to the configured total), and with "Sum of Used
\* Cache" there is none.
C12_PieSlices ==
    RunShown =>
        /\ \A r \in Range(detailed_stats) :
              r.type = "Collection" =>
                  Cardinality({k \in CollSlices : pie.labels[k] = r.ns}) = 1
        /\ \A k \in CollSlices :
              /\ Len(RowsOf(pie.labels[k], "Collection")) = 1
              /\ pie.values[k] = ReportedCache(pie.labels[k])
        /\ Cardinality(UnusedSlices) <= 1
        /\ (UnusedSlices # {}) <=>
              /\ denominator_choice = "Total WiredTiger Cache"
              /\ total_cache_size - SumSlices(CollSlices) > 0
        /\ \A k \in UnusedSlices :
              /\ pie.values[k] = total_cache_size - SumSlices(CollSlices)
              /\ SumSlices(DOMAIN pie.values) = total_cache_size
        /\ denominator_choice = "Sum of Used Cache" => UnusedSlices = {}

\* A run that shows an index-bearing collection and the unused slice
C12_Witness ==
    /\ RunShown
    /\ UnusedSlices # {}
    /\ \E k \in CollSlices :
          /\ Len(RowsOf(pie.labels[k], "Index")) > 0
          /\ pie.values[k] > RowsOf(pie.labels[k], "Collection")[1].cache
    /\ Cardinality(CollSlices) > 1

-----------------------------------------------------------------------------
(* The order of the console table.                                         *)

\* Row r is an index row of the collection shown by row c
IndexRowOf(r, c) ==
    /\ r.type = "Index"
    /\ c.type = "Collection"
    /\ Len(r.ns) > Len(c.ns)
    /\ SubSeq(r.ns, 1, Len(c.ns) + 1) = c.ns \o <<".">>

\* C13: the rows of the table a pass prints, collection rows and index rows
\* together, are in non-increasing order of their raw cache bytes, so no row
\* holds more cache bytes than the first; nothing else orders them.
C13_SortedByCacheDescending ==
    PassDone =>
        /\ \A i, j \in DOMAIN table_data :
              i < j => table_data[i].cache >= table_data[j].cache
        /\ \A r \in Range(table_data) : table_data[1].cache >= r.cache

\* A printed table in which another collection's row stands between a
\* collection's row and that collection's index row, and a table in which an
\* index row stands above its collection's row, are both possible; this is
\* the former
C13_Witness ==
    /\ PassDone
    /\ \E i, j, k \in DOMAIN table_data :
          /\ i < j /\ j < k
          /\ IndexRowOf(table_data[k], table_data[i])
          /\ table_data[j].type = "Collection"
          /\ table_data[i].cache > table_data[j].cache
          /\ table_data[j].cache > table_data[k].cache

-----------------------------------------------------------------------------
(* Collections left out for a data size of 0.                              *)

\* The record with only its two sizes refreshed from answer a
Resized(info, a) ==
    [info EXCEPT !.dataSize = Get(a.sizes.size, 0),
                 !.storageSize = Get(a.sizes.storageSize, Get(a.sizes.size, 0))]

=============================================================================
